---------------------------- MODULE Spec2Model ----------------------------
(***************************************************************************)
(* Model of random/random/floats.py: the non-uniform variate generators    *)
(* (triangular, normalvariate, lognormvariate, expovariate,                *)
(* vonmisesvariate, gammavariate, gauss, betavariate, paretovariate,       *)
(* weibullvariate) on top of a uniform source self.random().               *)
(*                                                                         *)
(* A float is a fixed-point integer in units of 1e-7 (One = 1.0), so the   *)
(* guard constants 1e-7 and .9999999 of the source are exact.  Magnitudes  *)
(* of INF and above stand for an overflowed value, NAN for the outcome of  *)
(* a math error (log of a non-positive number, division by zero).  A       *)
(* product, quotient or power that is nonzero in double precision is kept  *)
(* nonzero (at least one unit): fixed point must not underflow where the   *)
(* doubles of the program do not.                                          *)
(***************************************************************************)
EXTENDS Integers, Sequences, FiniteSets, TLC

----------------------------------------------------------------------------
(* Fixed-point arithmetic *)

One == 10^7
Half == One \div 2
INF == 10^9
NAN == 2147483647
RADIX == 10^4

Abs[a \in Int] == IF a < 0 THEN -a ELSE a
Sgn[a \in Int] == IF a < 0 THEN -1 ELSE IF a > 0 THEN 1 ELSE 0
IsNaN[a \in Int] == Abs[a] = NAN
IsInf[a \in Int] == Abs[a] >= INF /\ ~IsNaN[a]
Clamp[a \in Int] == IF a >= INF THEN INF ELSE IF a <= -INF THEN -INF ELSE a

Neg[a \in Int] == IF IsNaN[a] THEN NAN ELSE -a

Add[a \in Int, b \in Int] ==
    IF IsNaN[a] \/ IsNaN[b] THEN NAN
    ELSE IF IsInf[a] THEN (IF IsInf[b] /\ Sgn[a] # Sgn[b] THEN NAN ELSE Clamp[a])
    ELSE IF IsInf[b] THEN Clamp[b]
    ELSE Clamp[a + b]

Sub[a \in Int, b \in Int] == Add[a, Neg[b]]

\* |a| * |b| / One for finite magnitudes, by limbs of RADIX so that no
\* intermediate product leaves 32 bits.
MulRaw[A \in Int, B \in Int] ==
    LET A1 == A \div RADIX
        A0 == A % RADIX
        B1 == B \div RADIX
        B0 == B % RADIX
        m1 == A1 * B0
        m2 == A0 * B1
        low == (((m1 % 1000) + (m2 % 1000)) * RADIX + A0 * B0) \div One
        mid == (m1 \div 1000) + (m2 \div 1000)
    IN  IF B1 > 0 /\ A1 > (INF \div 10) \div B1 THEN INF
        ELSE LET q == A1 * B1 * 10 + mid + low
             IN  IF q >= INF THEN INF ELSE q

\* a magnitude that is nonzero in double precision is kept nonzero
NonZero[q \in Int] == IF q = 0 THEN 1 ELSE q

\* the same, kept nonzero: A, B > 0
MulMag[A \in Int, B \in Int] == NonZero[MulRaw[A, B]]

Mul[a \in Int, b \in Int] ==
    IF IsNaN[a] \/ IsNaN[b] THEN NAN
    ELSE IF a = 0 \/ b = 0 THEN (IF IsInf[a] \/ IsInf[b] THEN NAN ELSE 0)
    ELSE IF IsInf[a] \/ IsInf[b] THEN Sgn[a] * Sgn[b] * INF
    ELSE Sgn[a] * Sgn[b] * MulMag[Abs[a], Abs[b]]

DivDigits[r \in Int, B \in Int, n \in Int, acc \in Int] ==
    IF n = 0 THEN acc
    ELSE DivDigits[(r * 10) % B, B, n - 1, acc * 10 + (r * 10) \div B]

DivLong[A \in Int, B \in Int] ==
    IF A \div B >= INF \div One THEN INF
    ELSE NonZero[Clamp[DivDigits[A % B, B, 7, A \div B]]]

\* |a| / |b| * One for finite magnitudes, B > 0, by long division.
DivMag[A \in Int, B \in Int] ==
    IF B > INF \div 10 THEN DivLong[A \div 10, B \div 10] ELSE DivLong[A, B]

Div[a \in Int, b \in Int] ==
    IF IsNaN[a] \/ IsNaN[b] \/ b = 0 THEN NAN
    ELSE IF IsInf[a] THEN (IF IsInf[b] THEN NAN ELSE Sgn[a] * Sgn[b] * INF)
    ELSE IF IsInf[b] \/ a = 0 THEN 0
    ELSE Sgn[a] * Sgn[b] * DivMag[Abs[a], Abs[b]]

\* mu % TWOPI of Python: the result has the sign of the (positive) divisor.
Mod[a \in Int, m \in Int] == IF IsNaN[a] \/ IsInf[a] THEN NAN ELSE a % m

----------------------------------------------------------------------------
(* math: exp, log, sqrt, cos, sin, acos, pi, e, and the ** operator *)

_pi == 31415927
_e == 27182818

\* e^k for the integers k with 1e-7 <= e^k < 100
ExpTable ==
    <<1, 3, 8, 23, 61, 167, 454, 1234, 3355, 9119, 24788, 67379, 183156,
      497871, 1353353, 3678794, 10000000, 27182818, 73890561, 200855369,
      545981500>>

ExpInt[k \in Int] == ExpTable[k + 17]

\* sum of term, term*f/n, term*f^2/(n(n+1)), ...
ExpSeries[f \in Int, term \in Int, n \in Int] ==
    IF term = 0 \/ n > 14 THEN 0
    ELSE term + ExpSeries[f, MulRaw[term, f] \div n, n + 1]

\* e^x = e^k * e^f for x >= 0, and e^-k / e^f for x < 0, with 0 <= f < 1
ExpFrac[a \in Int] == ExpSeries[a % One, One, 1]

_exp[x \in Int] ==
    IF IsNaN[x] THEN NAN
    ELSE IF x >= 5 * One THEN INF
    ELSE IF x < -16 * One THEN 1
    ELSE IF x >= 0 THEN Clamp[MulMag[ExpInt[x \div One], ExpFrac[x]]]
    ELSE DivMag[ExpInt[-((-x) \div One)], ExpFrac[-x]]

LN10 == 23025851

\* the largest k of 0..4 with e^k <= x, for x >= One
LogInt[x \in Int, k \in Int] == IF k = 0 \/ ExpInt[k] <= x THEN k ELSE LogInt[x, k - 1]

\* t + t^3/3 + t^5/5 + ... (atanh), pw = t^n
AtanhSeries[t2 \in Int, pw \in Int, n \in Int] ==
    IF pw = 0 \/ n > 31 THEN 0
    ELSE (pw \div n) + AtanhSeries[t2, MulRaw[pw, t2], n + 2]

\* log of a finite x > 0: x below 1.0 is first scaled by tens, exactly
\* log y = 2 atanh t for t = (y - 1)/(y + 1)
LogT[y \in Int] == IF y = One THEN 0 ELSE DivMag[y - One, y + One]

LogSum[k \in Int, t \in Int] == k * One + 2 * AtanhSeries[MulRaw[t, t], t, 1]

LogK[x \in Int, k \in Int] == LogSum[k, LogT[DivMag[x, ExpInt[k]]]]

LogPos[x \in Int] ==
    IF x < One THEN LogPos[x * 10] - LN10 ELSE LogK[x, LogInt[x, 4]]

_log[x \in Int] ==
    IF IsNaN[x] \/ x <= 0 THEN NAN
    ELSE IF IsInf[x] THEN INF
    ELSE LogPos[x]

_sqrt[x \in Int] ==
    IF IsNaN[x] \/ x < 0 THEN NAN
    ELSE IF x = 0 THEN 0
    ELSE IF IsInf[x] THEN INF
    ELSE _exp[_log[x] \div 2]

\* x ** y for x >= 0
Pow[x \in Int, y \in Int] ==
    IF IsNaN[x] \/ IsNaN[y] \/ x < 0 THEN NAN
    ELSE IF x = 0 THEN (IF y > 0 THEN 0 ELSE IF y = 0 THEN One ELSE NAN)
    ELSE IF IsInf[x] THEN (IF y > 0 THEN INF ELSE IF y = 0 THEN One ELSE 1)
    ELSE _exp[Mul[y, _log[x]]]

\* 1 - x^2/2! + x^4/4! - ... for 0 <= x <= pi/2
CosSeries[x2 \in Int, term \in Int, n \in Int] ==
    IF term = 0 \/ n > 20 THEN 0
    ELSE term - CosSeries[x2, MulRaw[term, x2] \div (n * (n + 1)), n + 2]

CosQuarter[x \in Int] == CosSeries[MulRaw[x, x], One, 1]

\* cos on [0, 2 pi], folded to the first quadrant
_cos[x \in Int] ==
    IF IsNaN[x] \/ IsInf[x] THEN NAN
    ELSE LET a == Abs[x] % (2 * _pi)
             b == IF a > _pi THEN 2 * _pi - a ELSE a
         IN  IF 2 * b > _pi THEN -CosQuarter[_pi - b] ELSE CosQuarter[b]

_sin[x \in Int] == IF IsNaN[x] \/ IsInf[x] THEN NAN ELSE _cos[x - _pi \div 2]

\* the angle of [0, pi] whose cosine is f, by bisection
AcosBisect[f \in Int, lo \in Int, hi \in Int, n \in Int] ==
    IF n = 0 \/ hi - lo <= 1 THEN lo
    ELSE LET mid == (lo + hi) \div 2
         IN  IF _cos[mid] >= f THEN AcosBisect[f, mid, hi, n - 1]
             ELSE AcosBisect[f, lo, mid, n - 1]

_acos[f \in Int] ==
    IF IsNaN[f] \/ Abs[f] > One THEN NAN
    ELSE AcosBisect[f, 0, _pi, 26]

----------------------------------------------------------------------------
(* Module constants of floats.py, and the guard constants of its code *)

NV_MAGICCONST == Div[Mul[4 * One, _exp[Neg[Half]]], _sqrt[2 * One]]
TWOPI == Mul[2 * One, _pi]
LOG4 == _log[4 * One]
SG_MAGICCONST == Add[One, _log[45 * (One \div 10)]]

Eps == 1
Top == 9999999
KappaMin == 10

----------------------------------------------------------------------------
(* Bounds of the model, and the inputs it enumerates *)

MaxDraws == 4
MaxCalls == 3

\* what self.random() may return: 0.0, 1e-7, .25, .5, .9999999
Grid == {0, Eps, One \div 4, Half, Top}

\* what it returns to the concurrent callers of gauss
FewDraws == {One \div 4, Half}

\* what it returns where it is fair
FairDraws == {0, Half, Top}

TriangularArgs == {<<0, One>>, <<0, 2 * One, Half>>}
NormalArgs == {<<0, One>>, <<One, 2 * One>>}
LognormArgs == {<<0, Half>>}
ExpoArgs == {<<One>>, <<-2 * One>>}
VonmisesArgs == {<<0, 0>>, <<One, KappaMin>>, <<One, One>>, <<7 * One, 2 * One>>}
GammaArgs == {-One, 0, Half, One, 2 * One} \X {-One, 0, 2 * One}
GaussArgs == {<<0, One>>, <<One, 2 * One>>}
BetaArgs == {<<Half, Half>>, <<One, Half>>, <<2 * One, One>>, <<Half, 2 * One>>,
             <<0, One>>, <<-One, -One>>, <<One, 0>>, <<2 * One, -One>>, <<Half, -One>>}
ParetoArgs == {<<One>>, <<Half>>, <<2 * One>>}
WeibullArgs == {<<One, One>>, <<2 * One, Half>>}

Ctx == {1, 2}
Inst == {1, 2}

VARIABLES
    fr,          \* fr[c]: the call of caller c (a thread of control)
    gauss_next,  \* gauss_next[g]: the field self.gauss_next of generator g
    ngauss,      \* ngauss[g]: the parity of the number of gauss calls begun on g
    lock,        \* whether the callers serialize their calls on a generator
    hist         \* which deviates gauss has handed out (identities, for the
                 \* callers that run concurrently)

vars == <<fr, gauss_next, ngauss, lock, hist>>

----------------------------------------------------------------------------
(* A call in progress.  A call runs from its entry to the next call of    *)
(* self.random() in one step, and from the value random() returns to the   *)
(* next one; `at` is the source line of the random() call it waits in and  *)
(* `site` the line it was called from inside lognormvariate (63) or        *)
(* betavariate (267, 271).  u and v hold what the first and the second     *)
(* random() call of the current loop iteration returned, y and x the       *)
(* first and the second gammavariate sample of betavariate.                *)

NewFrame(self, op, args) ==
    [op |-> op, self |-> self, args |-> args, nd |-> 0, st |-> "run",
     at |-> 0, site |-> 0, u |-> 0, v |-> 0, y |-> 0, x |-> 0, ret |-> 0,
     z |-> <<>>, cid |-> 0, zid |-> <<>>]

IdleFrame == [NewFrame(1, "none", <<>>) EXCEPT !.st = "idle"]

WaitAt(f, line) == [f EXCEPT !.at = line]
Return(f, line, val) == [f EXCEPT !.st = "returned", !.at = line, !.ret = val]
Raise(f, line) == [f EXCEPT !.st = "raised", !.at = line]

----------------------------------------------------------------------------
(* triangular *)

TriangularEntry(f) == WaitAt(f, 20)

TriangularResume(f, r) ==
    LET low == f.args[1]
        high == f.args[2]
        u == r
        c == IF Len(f.args) = 2 THEN Half
             ELSE Div[Sub[f.args[3], low], Sub[high, low]]
        flip == u > c
        u_ == IF flip THEN Sub[One, u] ELSE u
        c_ == IF flip THEN Sub[One, c] ELSE c
        low_ == IF flip THEN high ELSE low
        high_ == IF flip THEN low ELSE high
    IN  Return([f EXCEPT !.u = r], 26,
               Add[low_, Mul[Sub[high_, low_], Pow[Mul[u_, c_], Half]]])

----------------------------------------------------------------------------
(* normalvariate *)

NormalZ(u1, r) == Div[Mul[NV_MAGICCONST, Sub[u1, Half]], Sub[One, r]]

\* a test of line 49 that no pair of draws passes
NormalAcceptNever(u1, r) == FALSE

\* line 49: zz <= -_log[u2]
NormalAccept(u1, r) ==
    LET z == NormalZ(u1, r)
        zz == Div[Mul[z, z], 4 * One]
    IN  zz <= Neg[_log[Sub[One, r]]]

\* normalvariate handing out the deviate gauss has cached, when there is one
NormalvariateResumeCached(f, r) ==
    IF f.at = 45 THEN WaitAt([f EXCEPT !.u = r], 46)
    ELSE LET g == [f EXCEPT !.v = r]
             z == IF gauss_next[f.self] # <<>> THEN gauss_next[f.self][1]
                  ELSE NormalZ(f.u, r)
         IN  IF NormalAccept(f.u, r)
             THEN Return(g, 51, Add[f.args[1], Mul[z, f.args[2]]])
             ELSE WaitAt(g, 45)

NormalvariateEntry(f) == WaitAt(f, 45)

NormalvariateResume(f, r) ==
    IF f.at = 45 THEN WaitAt([f EXCEPT !.u = r], 46)
    ELSE LET g == [f EXCEPT !.v = r]
         IN  IF NormalAccept(f.u, r)
             THEN Return(g, 51, Add[f.args[1], Mul[NormalZ(f.u, r), f.args[2]]])
             ELSE WaitAt(g, 45)

----------------------------------------------------------------------------
(* lognormvariate *)

LognormvariateEntry(f) == [NormalvariateEntry(f) EXCEPT !.site = 63]

LognormvariateResume(f, r) ==
    LET g == NormalvariateResume(f, r)
    IN  IF g.st = "returned" THEN Return([g EXCEPT !.site = 0], 63, _exp[g.ret])
        ELSE g

----------------------------------------------------------------------------
(* expovariate *)

\* the retry test written u < 1e-7: a draw of exactly 1e-7 would be kept
ExpovariateResumeBelow(f, r) ==
    LET u == r
        g == [f EXCEPT !.u = r]
    IN  IF u < Eps THEN WaitAt(g, 83)
        ELSE Return(g, 84, Div[Neg[_log[u]], f.args[1]])

ExpovariateEntry(f) == WaitAt(f, 81)

ExpovariateResume(f, r) ==
    LET u == r
        g == [f EXCEPT !.u = r]
    IN  IF u <= Eps THEN WaitAt(g, 83)
        ELSE Return(g, 84, Div[Neg[_log[u]], f.args[1]])

----------------------------------------------------------------------------
(* vonmisesvariate *)

\* lines 112-114
VonmisesA(kappa) == Add[One, _sqrt[Add[One, Mul[4 * One, Mul[kappa, kappa]]]]]

VonmisesB(kappa, a) == Div[Sub[a, _sqrt[Mul[2 * One, a]]], Mul[2 * One, kappa]]

VonmisesRb(b) == Div[Add[One, Mul[b, b]], Mul[2 * One, b]]

VonmisesR(kappa) == VonmisesRb(VonmisesB(kappa, VonmisesA(kappa)))

\* lines 119-120
VonmisesFz(r, z) == Div[Add[One, Mul[r, z]], Add[r, z]]

VonmisesF(kappa, u1) == VonmisesFz(VonmisesR(kappa), _cos[Mul[_pi, u1]])

\* line 121
VonmisesC(kappa, r, f) == Mul[kappa, Sub[r, f]]

\* line 125: u2 < c * (2.0 - c) or u2 <= c * _exp(1.0 - c)
VonmisesTest(c, u2) ==
    \/ u2 < Mul[c, Sub[2 * One, c]]
    \/ u2 <= Mul[c, _exp[Sub[One, c]]]

VonmisesAccept(kappa, u1, u2) ==
    VonmisesTest(VonmisesC(kappa, VonmisesR(kappa), VonmisesF(kappa, u1)), u2)

VonmisesvariateEntry(f) ==
    IF f.args[2] <= KappaMin THEN WaitAt(f, 110) ELSE WaitAt(f, 117)

VonmisesvariateResume(f, r) ==
    LET mu == f.args[1]
        kappa == f.args[2]
    IN  CASE f.at = 110 -> Return([f EXCEPT !.u = r], 110, Mul[TWOPI, r])
          [] f.at = 117 -> WaitAt([f EXCEPT !.u = r], 123)
          [] f.at = 123 ->
                IF VonmisesAccept(kappa, f.u, r)
                THEN WaitAt([f EXCEPT !.v = r], 128)
                ELSE WaitAt([f EXCEPT !.v = r], 117)
          [] OTHER ->
                LET u3 == r
                    fv == VonmisesF(kappa, f.u)
                IN  IF u3 > Half
                    THEN Return(f, 134, Add[Mod[mu, TWOPI], _acos[fv]])
                    ELSE Return(f, 134, Sub[Mod[mu, TWOPI], _acos[fv]])

----------------------------------------------------------------------------
(* gammavariate *)

\* the guard of line 165 with its bounds included: 1e-7 <= u1 <= .9999999
ChengInsideClosed(u1) == Eps <= u1 /\ u1 <= Top

\* line 165: 1e-7 < u1 < .9999999
ChengInside(u1) == Eps < u1 /\ u1 < Top

ChengV(alpha, u1) == Div[_log[Div[u1, Sub[One, u1]]], _sqrt[Sub[Mul[2 * One, alpha], One]]]

ChengX(alpha, u1) == Mul[alpha, _exp[ChengV(alpha, u1)]]

\* line 172: r + SG_MAGICCONST - 4.5*z >= 0.0 or r >= _log[z]
ChengAccept(alpha, u1, rnd) ==
    LET ainv == _sqrt[Sub[Mul[2 * One, alpha], One]]
        bbb == Sub[alpha, LOG4]
        ccc == Add[alpha, ainv]
        u2 == Sub[One, rnd]
        v == ChengV(alpha, u1)
        x == ChengX(alpha, u1)
        z == Mul[Mul[u1, u1], u2]
        r == Sub[Add[bbb, Mul[ccc, v]], x]
    IN  \/ Sub[Add[r, SG_MAGICCONST], Mul[45 * (One \div 10), z]] >= 0
        \/ r >= _log[z]

GsB(alpha) == Div[Add[_e, alpha], _e]

GsP(alpha, u) == Mul[GsB(alpha), u]

GsX(alpha, u) ==
    LET p == GsP(alpha, u)
    IN  IF p <= One THEN Pow[p, Div[One, alpha]]
        ELSE Neg[_log[Div[Sub[GsB(alpha), p], alpha]]]

\* lines 195-199
GsAccept(alpha, u, u1) ==
    LET x == GsX(alpha, u)
    IN  IF GsP(alpha, u) > One THEN u1 <= Pow[x, Sub[alpha, One]]
        ELSE u1 <= _exp[Neg[x]]

\* the parameter check with strict comparisons: alpha = 0 or beta = 0 passes
GammavariateEntryStrict(f) ==
    LET alpha == f.args[1]
        beta == f.args[2]
    IN  IF alpha < 0 \/ beta < 0 THEN Raise(f, 150)
        ELSE IF alpha > One THEN WaitAt(f, 164)
        ELSE IF alpha = One THEN WaitAt(f, 177)
        ELSE WaitAt(f, 187)

GammavariateEntry(f) ==
    LET alpha == f.args[1]
        beta == f.args[2]
    IN  IF alpha <= 0 \/ beta <= 0 THEN Raise(f, 150)
        ELSE IF alpha > One THEN WaitAt(f, 164)
        ELSE IF alpha = One THEN WaitAt(f, 177)
        ELSE WaitAt(f, 187)

GammavariateResume(f, r) ==
    LET alpha == f.args[1]
        beta == f.args[2]
    IN  CASE f.at = 164 ->
                IF ~ChengInside(r) THEN WaitAt([f EXCEPT !.u = r], 164)
                ELSE WaitAt([f EXCEPT !.u = r], 167)
          [] f.at = 167 ->
                IF ChengAccept(alpha, f.u, r)
                THEN Return([f EXCEPT !.v = r], 173, Mul[ChengX(alpha, f.u), beta])
                ELSE WaitAt([f EXCEPT !.v = r], 164)
          [] f.at \in {177, 179} ->
                IF r <= Eps THEN WaitAt([f EXCEPT !.u = r], 179)
                ELSE Return([f EXCEPT !.u = r], 180, Mul[Neg[_log[r]], beta])
          [] f.at = 187 -> WaitAt([f EXCEPT !.u = r], 194)
          [] OTHER ->
                IF GsAccept(alpha, f.u, r)
                THEN Return([f EXCEPT !.v = r], 200, Mul[GsX(alpha, f.u), beta])
                ELSE WaitAt([f EXCEPT !.v = r], 187)

----------------------------------------------------------------------------
(* betavariate *)

\* line 271: the second gammavariate call, entered with y in hand
BetaSecond(f, y) ==
    LET g == GammavariateEntry([f EXCEPT !.args = <<f.args[2], One>>])
    IN  [g EXCEPT !.args = f.args, !.site = 271, !.y = y]

\* betavariate checking both of its parameters before its first sample
BetavariateEntryChecked(f) ==
    LET g == GammavariateEntry([f EXCEPT !.args = <<f.args[1], One>>])
    IN  IF f.args[1] <= 0 \/ f.args[2] <= 0
        THEN [Raise(f, 150) EXCEPT !.site = 267]
        ELSE [g EXCEPT !.args = f.args, !.site = 267]

BetavariateEntry(f) ==
    LET g == GammavariateEntry([f EXCEPT !.args = <<f.args[1], One>>])
    IN  [g EXCEPT !.args = f.args, !.site = 267]

\* the shape parameter of the gammavariate call in progress
BetaShape(f) == IF f.site = 267 THEN f.args[1] ELSE f.args[2]

\* betavariate returning the share of the second sample, x / (y + x)
BetaAfterSwapped(f, g) ==
    IF g.st # "returned" THEN [g EXCEPT !.args = f.args]
    ELSE IF f.site = 267
    THEN IF g.ret = 0
         THEN Return([g EXCEPT !.args = f.args, !.site = 0, !.y = g.ret], 269, 0)
         ELSE BetaSecond([g EXCEPT !.args = f.args, !.st = "run", !.ret = 0], g.ret)
    ELSE Return([g EXCEPT !.args = f.args, !.site = 0, !.x = g.ret], 271,
                Div[g.ret, Add[f.y, g.ret]])

\* lines 267-271, with g what the gammavariate call in progress came to
BetaAfter(f, g) ==
    IF g.st # "returned" THEN [g EXCEPT !.args = f.args]
    ELSE IF f.site = 267
    THEN IF g.ret = 0
         THEN Return([g EXCEPT !.args = f.args, !.site = 0, !.y = g.ret], 269, 0)
         ELSE BetaSecond([g EXCEPT !.args = f.args, !.st = "run", !.ret = 0], g.ret)
    ELSE Return([g EXCEPT !.args = f.args, !.site = 0, !.x = g.ret], 271,
                Div[f.y, Add[f.y, g.ret]])

BetavariateResume(f, r) ==
    BetaAfter(f, GammavariateResume([f EXCEPT !.args = <<BetaShape(f), One>>], r))

----------------------------------------------------------------------------
(* paretovariate *)

ParetovariateEntry(f) == WaitAt(f, 279)

ParetovariateResume(f, r) ==
    LET u == Sub[One, r]
    IN  Return([f EXCEPT !.u = r], 280, Div[One, Pow[u, Div[One, f.args[1]]]])

----------------------------------------------------------------------------
(* weibullvariate *)

WeibullvariateEntry(f) == WaitAt(f, 292)

\* weibullvariate drawing again when 1 - u would be 1.0
WeibullvariateResumeRetry(f, r) ==
    LET u == Sub[One, r]
    IN  IF r = 0 THEN WaitAt([f EXCEPT !.u = r], 292)
        ELSE Return([f EXCEPT !.u = r], 293,
                    Mul[f.args[1], Pow[Neg[_log[u]], Div[One, f.args[2]]]])

WeibullvariateResume(f, r) ==
    LET u == Sub[One, r]
    IN  Return([f EXCEPT !.u = r], 293,
               Mul[f.args[1], Pow[Neg[_log[u]], Div[One, f.args[2]]]])

----------------------------------------------------------------------------
(* gauss: lines 233-241, one step per access to self.gauss_next and per    *)
(* random() call.  An absent value (None) is the empty tuple.              *)

GaussX2pi(f) == Mul[f.u, TWOPI]

GaussG2rad(f) == _sqrt[Mul[-2 * One, _log[Sub[One, f.v]]]]

GaussEntry(f) == WaitAt(f, 233)

\* gauss not looking at the cache: z is None whatever self.gauss_next holds
GaussReadNothing(f, cached) == WaitAt([f EXCEPT !.z = <<>>], 234)

\* line 233: z = self.gauss_next
GaussRead(f, cached) == WaitAt([f EXCEPT !.z = cached], 234)

\* line 234 left out: the cache keeps its value
GaussKeep(cache, g) == cache

\* line 234: self.gauss_next = None
GaussClear(cache, g) == [cache EXCEPT ![g] = <<>>]

\* lines 235 and 241: z is tested
GaussTest(f) ==
    IF f.z = <<>> THEN WaitAt(f, 236)
    ELSE Return(f, 241, Add[f.args[1], Mul[f.z[1], f.args[2]]])

\* lines 236-238
GaussResume(f, r) ==
    IF f.at = 236 THEN WaitAt([f EXCEPT !.u = r], 237)
    ELSE LET g == [f EXCEPT !.v = r]
         IN  WaitAt([g EXCEPT !.z = <<Mul[_cos[GaussX2pi(g)], GaussG2rad(g)]>>], 239)

\* line 239: the value stored in self.gauss_next
GaussSpare(f) == <<Mul[_sin[GaussX2pi(f)], GaussG2rad(f)]>>

\* line 241
GaussReturn(f) == Return(f, 241, Add[f.args[1], Mul[f.z[1], f.args[2]]])

----------------------------------------------------------------------------
(* State *)

NoHist == [ncalls |-> 0, tag |-> <<>>, handed |-> {}, dup |-> FALSE]

Init ==
    /\ fr = [c \in Ctx |-> IdleFrame]
    /\ gauss_next = [g \in Inst |-> <<>>]
    /\ ngauss = [g \in Inst |-> 0]
    /\ lock = TRUE
    /\ hist = NoHist

Min(a, b) == IF a < b THEN a ELSE b

Running(c, op) == fr[c].st = "run" /\ fr[c].op = op

\* S is a set of <<caller, generator>> pairs: the callers that make the same
\* call, each on its generator, and are handed the same values by random().
CtxOf(S) == {p[1] : p \in S}
SelfOf(S, c) == (CHOOSE p \in S : p[1] = c)[2]

\* a caller may begin a call when its previous call is over and, where the
\* callers serialize, no other caller is inside a call on the same generator
MayBegin(c, g) ==
    /\ fr[c].st # "run"
    /\ lock => \A d \in Ctx \ {c} : ~(fr[d].st = "run" /\ fr[d].self = g)

Begin(S, f) ==
    /\ \A c \in CtxOf(S) : MayBegin(c, SelfOf(S, c))
    /\ fr' = [c \in Ctx |->
                IF c \in CtxOf(S) THEN [f EXCEPT !.self = SelfOf(S, c)] ELSE fr[c]]
    /\ UNCHANGED <<gauss_next, ngauss, lock, hist>>

\* the callers of S that wait in random() have been handed a value and have
\* come to next[c]; capped, a call draws at most MaxDraws times, otherwise
\* its count of draws stops there
CanDraw(c, op, capped) == Running(c, op) /\ (capped => fr[c].nd < MaxDraws)

Draw(S, op, capped, next) ==
    /\ \E c \in CtxOf(S) : CanDraw(c, op, capped)
    /\ fr' = [c \in Ctx |->
                IF c \in CtxOf(S) /\ CanDraw(c, op, capped)
                THEN [next[c] EXCEPT !.nd = Min(fr[c].nd + 1, MaxDraws)]
                ELSE fr[c]]
    /\ UNCHANGED <<gauss_next, ngauss, lock, hist>>

Triangular(S, capped) ==
    \/ \E a \in TriangularArgs : Begin(S, TriangularEntry(NewFrame(1, "triangular", a)))
    \/ \E r \in Grid :
         Draw(S, "triangular", capped,
              [c \in Ctx |-> IF Running(c, "triangular") THEN TriangularResume(fr[c], r) ELSE fr[c]])

Normalvariate(S, capped) ==
    \/ \E a \in NormalArgs : Begin(S, NormalvariateEntry(NewFrame(1, "normalvariate", a)))
    \/ \E r \in Grid :
         Draw(S, "normalvariate", capped,
              [c \in Ctx |-> IF Running(c, "normalvariate") THEN NormalvariateResume(fr[c], r) ELSE fr[c]])

Lognormvariate(S, capped) ==
    \/ \E a \in LognormArgs : Begin(S, LognormvariateEntry(NewFrame(1, "lognormvariate", a)))
    \/ \E r \in Grid :
         Draw(S, "lognormvariate", capped,
              [c \in Ctx |-> IF Running(c, "lognormvariate") THEN LognormvariateResume(fr[c], r) ELSE fr[c]])

Expovariate(S, capped) ==
    \/ \E a \in ExpoArgs : Begin(S, ExpovariateEntry(NewFrame(1, "expovariate", a)))
    \/ \E r \in Grid :
         Draw(S, "expovariate", capped,
              [c \in Ctx |-> IF Running(c, "expovariate") THEN ExpovariateResume(fr[c], r) ELSE fr[c]])

Vonmisesvariate(S, capped) ==
    \/ \E a \in VonmisesArgs : Begin(S, VonmisesvariateEntry(NewFrame(1, "vonmisesvariate", a)))
    \/ \E r \in Grid :
         Draw(S, "vonmisesvariate", capped,
              [c \in Ctx |-> IF Running(c, "vonmisesvariate") THEN VonmisesvariateResume(fr[c], r) ELSE fr[c]])

Gammavariate(S, capped) ==
    \/ \E a \in GammaArgs : Begin(S, GammavariateEntry(NewFrame(1, "gammavariate", a)))
    \/ \E r \in Grid :
         Draw(S, "gammavariate", capped,
              [c \in Ctx |-> IF Running(c, "gammavariate") THEN GammavariateResume(fr[c], r) ELSE fr[c]])

Betavariate(S, capped) ==
    \/ \E a \in BetaArgs : Begin(S, BetavariateEntry(NewFrame(1, "betavariate", a)))
    \/ \E r \in Grid :
         Draw(S, "betavariate", capped,
              [c \in Ctx |-> IF Running(c, "betavariate") THEN BetavariateResume(fr[c], r) ELSE fr[c]])

Paretovariate(S, capped) ==
    \/ \E a \in ParetoArgs : Begin(S, ParetovariateEntry(NewFrame(1, "paretovariate", a)))
    \/ \E r \in Grid :
         Draw(S, "paretovariate", capped,
              [c \in Ctx |-> IF Running(c, "paretovariate") THEN ParetovariateResume(fr[c], r) ELSE fr[c]])

Weibullvariate(S, capped) ==
    \/ \E a \in WeibullArgs : Begin(S, WeibullvariateEntry(NewFrame(1, "weibullvariate", a)))
    \/ \E r \in Grid :
         Draw(S, "weibullvariate", capped,
              [c \in Ctx |-> IF Running(c, "weibullvariate") THEN WeibullvariateResume(fr[c], r) ELSE fr[c]])

\* the deviate a returning gauss call hands out, recorded when ids are kept
Handed(f, ids) ==
    IF ids THEN [hist EXCEPT !.handed = @ \cup {f.zid},
                             !.dup = @ \/ f.zid \in hist.handed]
    ELSE hist

\* gauss of caller c on generator g, random() returning values of D; with
\* ids, every computed pair of deviates is given the number of the call that
\* computed it, and at most MaxCalls calls are made
Gauss(c, g, ids, D) ==
    \/ /\ MayBegin(c, g)
       /\ ids => hist.ncalls < MaxCalls
       /\ \E a \in GaussArgs :
            fr' = [fr EXCEPT ![c] =
                     [GaussEntry(NewFrame(g, "gauss", a)) EXCEPT
                        !.cid = IF ids THEN hist.ncalls + 1 ELSE 0]]
       /\ ngauss' = [ngauss EXCEPT ![g] = 1 - @]
       /\ hist' = IF ids THEN [hist EXCEPT !.ncalls = @ + 1] ELSE hist
       /\ UNCHANGED <<gauss_next, lock>>
    \/ /\ Running(c, "gauss") /\ fr[c].self = g /\ fr[c].at = 233
       /\ fr' = [fr EXCEPT ![c] = [GaussRead(@, gauss_next[g]) EXCEPT !.zid = hist.tag]]
       /\ UNCHANGED <<gauss_next, ngauss, lock, hist>>
    \/ /\ Running(c, "gauss") /\ fr[c].self = g /\ fr[c].at = 234
       /\ gauss_next' = GaussClear(gauss_next, g)
       /\ fr' = [fr EXCEPT ![c] = GaussTest(@)]
       /\ hist' = [(IF fr'[c].st = "returned" THEN Handed(fr[c], ids) ELSE hist)
                    EXCEPT !.tag = IF gauss_next'[g] = <<>> THEN <<>> ELSE @]
       /\ UNCHANGED <<ngauss, lock>>
    \/ /\ Running(c, "gauss") /\ fr[c].self = g /\ fr[c].at \in {236, 237}
       /\ fr[c].nd < MaxDraws
       /\ \E r \in D :
            fr' = [fr EXCEPT ![c] =
                     [GaussResume(@, r) EXCEPT
                        !.nd = @ + 1,
                        !.zid = IF ids /\ fr[c].at = 237 THEN <<fr[c].cid, "cos">> ELSE @]]
       /\ UNCHANGED <<gauss_next, ngauss, lock, hist>>
    \/ /\ Running(c, "gauss") /\ fr[c].self = g /\ fr[c].at = 239
       /\ gauss_next' = [gauss_next EXCEPT ![g] = GaussSpare(fr[c])]
       /\ fr' = [fr EXCEPT ![c] = GaussReturn(@)]
       /\ hist' = [Handed(fr[c], ids) EXCEPT
                     !.tag = IF ids THEN <<fr[c].cid, "sin">> ELSE <<>>]
       /\ UNCHANGED <<ngauss, lock>>

----------------------------------------------------------------------------
(* One caller, one generator: non-overlapping calls *)

Solo == {<<1, 1>>}

Next ==
    \/ Triangular(Solo, TRUE)
    \/ Normalvariate(Solo, TRUE)
    \/ Lognormvariate(Solo, TRUE)
    \/ Expovariate(Solo, TRUE)
    \/ Vonmisesvariate(Solo, TRUE)
    \/ Gammavariate(Solo, TRUE)
    \/ Gauss(1, 1, FALSE, Grid)
    \/ Betavariate(Solo, TRUE)
    \/ Paretovariate(Solo, TRUE)
    \/ Weibullvariate(Solo, TRUE)

Spec == Init /\ [][Next]_vars

----------------------------------------------------------------------------
(* Replay: two generators are asked for the same variate with the same     *)
(* parameters and are handed the same draws; before that, gauss calls are  *)
(* made on the second generator alone, so that its cache and its history   *)
(* differ from those of the first.                                         *)

Both == {<<1, 1>>, <<2, 2>>}

NextReplay ==
    \/ Triangular(Both, TRUE)
    \/ Normalvariate(Both, TRUE)
    \/ Lognormvariate(Both, TRUE)
    \/ Expovariate(Both, TRUE)
    \/ Vonmisesvariate(Both, TRUE)
    \/ Gammavariate(Both, TRUE)
    \/ Betavariate(Both, TRUE)
    \/ Paretovariate(Both, TRUE)
    \/ Weibullvariate(Both, TRUE)
    \/ fr[1].st = "idle" /\ Gauss(2, 2, FALSE, Grid)

SpecReplay == Init /\ [][NextReplay]_vars

----------------------------------------------------------------------------
(* Two callers of gauss on one generator, with or without a lock around    *)
(* the calls.                                                              *)

InitConc ==
    /\ fr = [c \in Ctx |-> IdleFrame]
    /\ gauss_next = [g \in Inst |-> <<>>]
    /\ ngauss = [g \in Inst |-> 0]
    /\ lock \in BOOLEAN
    /\ hist = NoHist

NextConc ==
    \/ Gauss(1, 1, TRUE, FewDraws)
    \/ Gauss(2, 1, TRUE, FewDraws)

SpecConc == InitConc /\ [][NextConc]_vars

----------------------------------------------------------------------------
(* A fair uniform source.  A step is one pass through a loop body (one or  *)
(* two draws), the count of draws is not capped, and a pass whose draws    *)
(* the loop test accepts is eventually made.                               *)

Ops == {"triangular", "normalvariate", "lognormvariate", "expovariate",
        "vonmisesvariate", "gammavariate", "betavariate", "paretovariate",
        "weibullvariate"}

ArgsOf(op) ==
    CASE op = "triangular" -> TriangularArgs
      [] op = "normalvariate" -> NormalArgs
      [] op = "lognormvariate" -> LognormArgs
      [] op = "expovariate" -> ExpoArgs
      [] op = "vonmisesvariate" -> VonmisesArgs
      [] op = "gammavariate" -> GammaArgs
      [] op = "betavariate" -> BetaArgs
      [] op = "paretovariate" -> ParetoArgs
      [] OTHER -> WeibullArgs

EntryOf(f) ==
    CASE f.op = "triangular" -> TriangularEntry(f)
      [] f.op = "normalvariate" -> NormalvariateEntry(f)
      [] f.op = "lognormvariate" -> LognormvariateEntry(f)
      [] f.op = "expovariate" -> ExpovariateEntry(f)
      [] f.op = "vonmisesvariate" -> VonmisesvariateEntry(f)
      [] f.op = "gammavariate" -> GammavariateEntry(f)
      [] f.op = "betavariate" -> BetavariateEntry(f)
      [] f.op = "paretovariate" -> ParetovariateEntry(f)
      [] OTHER -> WeibullvariateEntry(f)

\* the random() calls that are the second of a loop body
SecondDraw == {46, 123, 167, 194}

PassOver(f) == f.st # "run" \/ f.at \notin SecondDraw

Counted(f, n) == [f EXCEPT !.nd = Min(@ + n, MaxDraws)]

FairBegin(c) ==
    \E op \in Ops : \E a \in ArgsOf(op) :
        Begin({<<c, c>>}, EntryOf(NewFrame(c, op, a)))

\* caller c goes on as f2
PassTo(c, f2) ==
    /\ fr' = [fr EXCEPT ![c] = f2]
    /\ UNCHANGED <<gauss_next, ngauss, lock, hist>>

\* one pass of caller c through the loop body it is in: one draw, and the
\* second draw of the body where the first one leads to it
Pass(c) ==
    /\ fr[c].st = "run"
    /\ \/ /\ fr[c].op = "triangular"
          /\ \E r1 \in FairDraws : PassTo(c, Counted(TriangularResume(fr[c], r1), 1))
       \/ /\ fr[c].op = "expovariate"
          /\ \E r1 \in FairDraws : PassTo(c, Counted(ExpovariateResume(fr[c], r1), 1))
       \/ /\ fr[c].op = "paretovariate"
          /\ \E r1 \in FairDraws : PassTo(c, Counted(ParetovariateResume(fr[c], r1), 1))
       \/ /\ fr[c].op = "weibullvariate"
          /\ \E r1 \in FairDraws : PassTo(c, Counted(WeibullvariateResume(fr[c], r1), 1))
       \/ /\ fr[c].op = "normalvariate"
          /\ \E f1 \in {NormalvariateResume(fr[c], r1) : r1 \in FairDraws} :
               \E f2 \in (IF PassOver(f1) THEN {Counted(f1, 1)}
                          ELSE {Counted(NormalvariateResume(f1, r2), 2) : r2 \in FairDraws}) :
                  PassTo(c, f2)
       \/ /\ fr[c].op = "lognormvariate"
          /\ \E f1 \in {LognormvariateResume(fr[c], r1) : r1 \in FairDraws} :
               \E f2 \in (IF PassOver(f1) THEN {Counted(f1, 1)}
                          ELSE {Counted(LognormvariateResume(f1, r2), 2) : r2 \in FairDraws}) :
                  PassTo(c, f2)
       \/ /\ fr[c].op = "vonmisesvariate"
          /\ \E f1 \in {VonmisesvariateResume(fr[c], r1) : r1 \in FairDraws} :
               \E f2 \in (IF PassOver(f1) THEN {Counted(f1, 1)}
                          ELSE {Counted(VonmisesvariateResume(f1, r2), 2) : r2 \in FairDraws}) :
                  PassTo(c, f2)
       \/ /\ fr[c].op = "gammavariate"
          /\ \E f1 \in {GammavariateResume(fr[c], r1) : r1 \in FairDraws} :
               \E f2 \in (IF PassOver(f1) THEN {Counted(f1, 1)}
                          ELSE {Counted(GammavariateResume(f1, r2), 2) : r2 \in FairDraws}) :
                  PassTo(c, f2)
       \/ /\ fr[c].op = "betavariate"
          /\ \E f1 \in {BetavariateResume(fr[c], r1) : r1 \in FairDraws} :
               \E f2 \in (IF PassOver(f1) THEN {Counted(f1, 1)}
                          ELSE {Counted(BetavariateResume(f1, r2), 2) : r2 \in FairDraws}) :
                  PassTo(c, f2)

\* the call left the loop it was in: it is over, went on to betavariate's
\* second sample, or reached vonmisesvariate's draw of u3
LeftLoop(f, g) == g.st # "run" \/ g.site # f.site \/ g.at = 128

NextFair == FairBegin(1) \/ Pass(1)

SpecFair ==
    Init /\ [][NextFair]_vars /\ WF_vars(Pass(1) /\ LeftLoop(fr[1], fr'[1]))

----------------------------------------------------------------------------
(* Properties.  F is the call of caller 1; a step of a call in progress is *)
(* a step that changes F while F is running.                               *)

F == fr[1]

Drew(op) == F.st = "run" /\ F.op = op /\ fr'[1] # F

Finite(a) == ~IsNaN[a] /\ ~IsInf[a]

\* C2: gammavariate called with alpha <= 0 or beta <= 0, exact 0 included
\* and whatever the regime of alpha, has raised the invalid-argument error
\* (line 150) and has consumed no uniform draw.
C2_InvalidGammaRaisesUndrawn ==
    (F.op = "gammavariate" /\ (F.args[1] <= 0 \/ F.args[2] <= 0))
        => (F.st = "raised" /\ F.at = 150 /\ F.nd = 0)

C2_Witness ==
    F.op = "gammavariate" /\ F.args = <<2 * One, 0>> /\ F.st = "raised"

\* C5: expovariate discards every draw u <= 1e-7 (0.0 included) and goes on
\* drawing, returns -log(u)/lambd for the first draw u > 1e-7, a finite
\* value, and each of these steps consumes one draw: the draws consumed
\* are the discarded ones plus one.
C5_ExpovariateSkipsTinyDraws ==
    /\ [][Drew("expovariate") =>
            LET r == fr'[1].u
                lambd == F.args[1]
            IN  /\ fr'[1].nd = F.nd + 1
                /\ (r <= Eps) => (fr'[1].st = "run" /\ fr'[1].at = 83)
                /\ (r > Eps) =>
                      /\ fr'[1].st = "returned"
                      /\ fr'[1].ret = Div[Neg[_log[r]], lambd]
                      /\ Finite(_log[r]) /\ Finite(fr'[1].ret)]_vars
    /\ [](F.op = "expovariate" =>
            /\ (F.st = "run" /\ F.nd > 0) => F.u <= Eps
            /\ (F.st = "returned") => (F.u > Eps /\ F.nd >= 1 /\ Finite(F.ret)))

C5_Witness ==
    F.op = "expovariate" /\ F.st = "returned" /\ F.nd = 3 /\ F.u > Eps

\* C10: in gammavariate with alpha > 1, an iteration whose first draw u1 is
\* not strictly inside (1e-7, .9999999) consumes that one draw and starts
\* over; otherwise a second draw is made, and where the tests of line 172
\* are evaluated u1 is strictly inside (1e-7, .9999999), u2 is in (0, 1],
\* 1 - u1 and z are nonzero and the logarithms are defined.
C10_ChengGuard ==
    /\ [][(Drew("gammavariate") /\ F.at = 164) =>
            LET u1 == fr'[1].u
            IN  /\ fr'[1].nd = F.nd + 1
                /\ fr'[1].st = "run"
                /\ fr'[1].at = IF Eps < u1 /\ u1 < Top THEN 167 ELSE 164]_vars
    /\ [][(Drew("gammavariate") /\ F.at = 167) =>
            LET alpha == F.args[1]
                u1 == F.u
                u2 == Sub[One, fr'[1].v]
                z == Mul[Mul[u1, u1], u2]
            IN  /\ alpha > One
                /\ fr'[1].nd = F.nd + 1 /\ fr'[1].u = u1
                /\ Eps < u1 /\ u1 < Top
                /\ 0 < u2 /\ u2 <= One
                /\ Sub[One, u1] # 0 /\ z > 0
                /\ Finite(ChengV(alpha, u1)) /\ Finite(_log[z])
                /\ fr'[1].st = "returned" \/ (fr'[1].st = "run" /\ fr'[1].at = 164)]_vars
    /\ []((F.op = "gammavariate" /\ F.at \in {164, 167}) => F.args[1] > One)

C10_Witness ==
    /\ F.op = "gammavariate" /\ F.st = "returned" /\ F.at = 173
    /\ F.nd = 4 /\ F.u = Half

\* what a gauss call in progress or over satisfies, by the parity of its
\* number among the gauss calls made on the generator
GaussCallAlternates ==
    LET mu == F.args[1]
        sigma == F.args[2]
        x2pi == Mul[F.u, TWOPI]
        g2rad == _sqrt[Mul[-2 * One, _log[Sub[One, F.v]]]]
        odd == ngauss[1] = 1
    IN  (F.op = "gauss") =>
            /\ (F.at = 233 /\ F.st = "run") => ((gauss_next[1] = <<>>) <=> odd)
            /\ (odd /\ F.st = "returned") =>
                  /\ F.nd = 2
                  /\ F.ret = Add[mu, Mul[Mul[_cos[x2pi], g2rad], sigma]]
                  /\ gauss_next[1] = <<Mul[_sin[x2pi], g2rad]>>
            /\ (~odd) =>
                  /\ F.nd = 0
                  /\ (F.st = "returned") =>
                        /\ gauss_next[1] = <<>>
                        /\ F.z # <<>>
                        /\ F.ret = Add[mu, Mul[F.z[1], sigma]]

\* C1: on one generator whose cache starts absent, with calls that do not
\* overlap and any other operations in between, the odd gauss calls find
\* the cache absent, draw twice (x, then the draw for g), return
\* mu + cos(x)*g*sigma and leave sin(x)*g in the cache; the even gauss calls
\* draw nothing, return mu + (cached value)*sigma with their own mu and
\* sigma and leave the cache absent; only a gauss call changes the cache.
C1_GaussAlternates ==
    /\ []GaussCallAlternates
    /\ [][(Drew("gauss") /\ F.at = 233) => fr'[1].z = gauss_next[1]]_vars
    /\ [][(Drew("gauss") /\ F.at = 236) =>
            (fr'[1].nd = 1 /\ fr'[1].at = 237)]_vars
    /\ [][(Drew("gauss") /\ F.at = 237) =>
            (fr'[1].nd = 2 /\ fr'[1].u = F.u)]_vars
    /\ [][(gauss_next' # gauss_next) => (F.op = "gauss" /\ F.st = "run")]_vars
    /\ [][(fr'[1].op # "gauss") =>
            (gauss_next' = gauss_next /\ ngauss' = ngauss)]_vars

C1_Witness ==
    /\ F.op = "gauss" /\ F.st = "returned" /\ ngauss[1] = 0
    /\ F.args = <<One, 2 * One>> /\ F.nd = 0 /\ F.z # <<>>
    /\ F.ret # One

\* C3 as stated: whenever an operation has ended in the invalid-argument
\* error, betavariate included, the failing call has consumed no draw.
C3_RaisedUndrawn == (F.st = "raised") => (F.nd = 0)

\* C3: the invalid-argument error is raised at line 150, on entry to a
\* gammavariate call and before that call draws.  gammavariate itself, and
\* betavariate with alpha <= 0, have then consumed no draw; betavariate with
\* alpha > 0 and beta <= 0 raises it on entry to its second gammavariate
\* call, after the first one has consumed at least one draw and returned a
\* nonzero sample, and returns 0.0 without any error when that sample is 0.
C3_RaisedAtGammaEntry ==
    /\ (F.st = "raised") =>
          /\ F.at = 150 /\ F.op \in {"gammavariate", "betavariate"}
          /\ (F.op = "gammavariate") =>
                (F.nd = 0 /\ (F.args[1] <= 0 \/ F.args[2] <= 0))
          /\ (F.op = "betavariate" /\ F.site = 267) =>
                (F.nd = 0 /\ F.args[1] <= 0)
          /\ (F.op = "betavariate" /\ F.site # 267) =>
                /\ F.site = 271 /\ F.nd >= 1
                /\ F.args[1] > 0 /\ F.args[2] <= 0 /\ F.y # 0
    /\ (F.op = "betavariate" /\ F.args[1] > 0 /\ F.args[2] <= 0) =>
          /\ (F.st = "returned") => (F.at = 269 /\ F.y = 0 /\ F.ret = 0 /\ F.nd >= 1)
          /\ (F.st = "run") => F.site = 267

C3_Witness ==
    /\ F.op = "betavariate" /\ F.st = "raised" /\ F.site = 271
    /\ F.args = <<One, 0>> /\ F.nd = 1

\* C6 as stated: for alpha > 0 and beta > 0, betavariate returns a value of
\* [0, 1) and never exactly 1.
C6_BelowOne ==
    (F.op = "betavariate" /\ F.st = "returned" /\ F.args[1] > 0 /\ F.args[2] > 0)
        => (0 <= F.ret /\ F.ret < One)

\* C6: for alpha > 0 and beta > 0, betavariate returns a value of [0, 1]:
\* 0.0 (line 269) when its first gammavariate sample is 0, y / (y + x)
\* otherwise, which is exactly 1.0 when the second sample x is 0.
C6_WithinUnit ==
    (F.op = "betavariate" /\ F.st = "returned" /\ F.args[1] > 0 /\ F.args[2] > 0)
        => /\ 0 <= F.ret /\ F.ret <= One
           /\ (F.y = 0) <=> (F.at = 269)
           /\ (F.y = 0) => F.ret = 0
           /\ (F.y # 0) => (F.y > 0 /\ F.x >= 0 /\ F.ret = Div[F.y, Add[F.y, F.x]])
           /\ (F.y # 0 /\ F.x = 0) => F.ret = One

C6_Witness ==
    /\ F.op = "betavariate" /\ F.st = "returned" /\ F.args = <<One, Half>>
    /\ F.y > 0 /\ F.x = 0 /\ F.ret = One

\* the operations and regimes that C8 lists as bounded
C8Listed ==
    \/ F.op \in {"triangular", "expovariate", "gauss", "paretovariate",
                 "weibullvariate"}
    \/ F.op = "gammavariate" /\ F.args[1] = One /\ F.args[2] > 0

\* C8 as stated: triangular, expovariate, gammavariate with alpha = 1,
\* gauss, paretovariate and weibullvariate are over after a fixed number of
\* draws: none of them still waits for a draw after MaxDraws draws.
C8_ListedBounded == C8Listed => ~(F.st = "run" /\ F.nd = MaxDraws)

\* C8: triangular, paretovariate and weibullvariate return on their single
\* draw, vonmisesvariate with kappa <= 1e-6 too, gauss draws twice or not at
\* all; expovariate and gammavariate with alpha = 1 draw again for as long
\* as the draws are <= 1e-7, without a bound, and return on the first draw
\* above 1e-7.
C8_BoundedDraws ==
    /\ (F.op \in {"triangular", "paretovariate", "weibullvariate"}
          \/ (F.op = "vonmisesvariate" /\ F.args[2] <= KappaMin)) =>
          /\ F.nd <= 1
          /\ (F.nd = 1) <=> (F.st = "returned")
    /\ (F.op = "gauss") =>
          /\ F.nd <= 2
          /\ (F.st = "returned") => F.nd \in {0, 2}
    /\ (F.op = "expovariate" \/ (F.op = "gammavariate" /\ F.args[1] = One /\ F.args[2] > 0)) =>
          /\ (F.st = "run" /\ F.nd > 0) => F.u <= Eps
          /\ (F.st = "returned") => (F.nd >= 1 /\ F.u > Eps)
          /\ F.st # "raised"

C8_Witness ==
    /\ F.op = "gammavariate" /\ F.args = <<One, 2 * One>>
    /\ F.st = "run" /\ F.nd = MaxDraws /\ F.u <= Eps

\* C4: two gauss calls that run concurrently on one generator without a lock
\* can both return the same cached deviate (both read it at line 233 before
\* either clears it at line 234: the witness); when the calls are serialized
\* no deviate is handed out twice.
C4_SerializedNoDuplicate ==
    lock =>
        /\ ~hist.dup
        /\ (fr[1].st = "returned" /\ fr[2].st = "returned") => fr[1].zid # fr[2].zid
        /\ ~(fr[1].st = "run" /\ fr[2].st = "run")

C4_Witness ==
    /\ ~lock /\ hist.dup
    /\ fr[1].st = "returned" /\ fr[2].st = "returned"
    /\ fr[1].nd = 0 /\ fr[2].nd = 0
    /\ fr[1].zid # <<>> /\ fr[1].zid = fr[2].zid
    /\ fr[1].z = fr[2].z /\ fr[1].args = fr[2].args /\ fr[1].ret = fr[2].ret

\* C7: an operation other than gauss, called with the same parameters on two
\* generators and handed the same draws, is at every step at the same place
\* with the same result and the same number of draws consumed on both,
\* whatever gauss calls were made on one of them before and whatever its
\* cache holds.
C7_ReplayAgrees ==
    (fr[1].st # "idle") => (fr[2] = [fr[1] EXCEPT !.self = 2])

C7_Witness ==
    /\ fr[1].op = "normalvariate" /\ fr[1].st = "returned" /\ fr[1].nd = 4
    /\ fr[2].st = "returned" /\ fr[2].ret = fr[1].ret /\ fr[2].nd = 4
    /\ gauss_next[1] = <<>> /\ gauss_next[2] # <<>> /\ ngauss[2] = 1

\* the parameters gammavariate accepts
ValidArgs ==
    (F.op \in {"gammavariate", "betavariate"}) => (F.args[1] > 0 /\ F.args[2] > 0)

\* the acceptance test of the loop that call f is in, on the draws u and v of
\* the pass that led to g (a call outside of a loop accepts any draw)
PassAccepted(f, g) ==
    LET alpha == IF f.op = "betavariate" /\ f.site = 271 THEN f.args[2]
                 ELSE f.args[1]
    IN  CASE f.op \in {"normalvariate", "lognormvariate"} -> NormalAccept(g.u, g.v)
          [] f.op = "expovariate" -> g.u > Eps
          [] f.op = "vonmisesvariate" /\ f.at \in {117, 123} ->
                VonmisesAccept(f.args[2], g.u, g.v)
          [] f.op \in {"gammavariate", "betavariate"} /\ alpha > One ->
                Eps < g.u /\ g.u < Top /\ ChengAccept(alpha, g.u, g.v)
          [] f.op \in {"gammavariate", "betavariate"} /\ alpha = One -> g.u > Eps
          [] f.op \in {"gammavariate", "betavariate"} /\ alpha < One ->
                GsAccept(alpha, g.u, g.v)
          [] OTHER -> TRUE

\* C9: under a fair uniform source every call with valid parameters returns:
\* no such call raises, a call in progress is eventually over, and a pass
\* through a loop body leaves the loop exactly when the loop's acceptance
\* test holds of its draws.
C9_FairCallsReturn ==
    /\ ((F.st = "run" /\ ValidArgs) ~> (F.st = "returned"))
    /\ [](ValidArgs => F.st # "raised")
    /\ [][(F.st = "run" /\ fr'[1] # F) =>
            (LeftLoop(F, fr'[1]) <=> PassAccepted(F, fr'[1]))]_vars

C9_Witness ==
    /\ F.op = "gammavariate" /\ F.args = <<2 * One, 2 * One>>
    /\ F.st = "returned" /\ F.nd >= 3

=============================================================================
